---- MODULE Spec2Model ----
(***************************************************************************)
(* Verification model of go_blade_engine_2.                                *)
(*                                                                         *)
(* Two state machines share this module:                                   *)
(*   SpecCache    - CacheManager (engine/blade.go): the in-memory map, the *)
(*                  running size total, the compiled files in cm.cacheDir, *)
(*                  driven by concurrent renderWithCache calls, the        *)
(*                  invalidation calls and the background sweep.           *)
(*   SpecCompiler - Compiler (engine/compiler.go): Compile of one page     *)
(*                  against one layout, pass by pass, on token sequences.  *)
(***************************************************************************)
EXTENDS Integers, Sequences, FiniteSets, TLC

(***************************************************************************)
(* Bounds of the model and configured values.                              *)
(***************************************************************************)
\* the clock runs 0..MaxTime (one unit = one TTL-sized step of wall time)
MaxTime == 3
\* Set is called with an estimated size in 0..MaxItemSize
MaxItemSize == 1
\* nesting of template calls followed by Execute
MaxExecDepth == 3
\* sections in a page
MaxSections == 2
\* cm.maxSize, set from the configuration by NewCacheManager
maxSize == 2
\* cm.ttl, set from the configuration by NewCacheManager
ttl == 1

\* logical template names used as cache keys
Keys == {"pages/a", "pages/b"}
\* concurrent render calls (one goroutine per in-flight request)
Procs == {"r1", "r2"}

VARIABLES
    \* ---- CacheManager -------------------------------------------------
    items,        \* cm.items: key -> [CreatedAt, LastUsedAt, Size]
    currentSize,  \* cm.currentSize
    now,          \* time.Now()
    cacheFiles,   \* keys whose <key>.compiled file exists in cm.cacheDir
    rpc,          \* per render call: position in renderWithCache
    last,         \* the CacheManager call that returned last, and its result
    \* ---- Compiler -----------------------------------------------------
    childSrc,         \* the page file under templatesDir/pages
    layoutSrc,        \* the layout file under templatesDir/layouts
    pc,               \* position of the Compile call in progress
    content,          \* CompileString's content
    layout,           \* the layout name processExtends returned
    compiledLayout,   \* combineWithLayout's compiledLayout
    defines,          \* combineWithLayout's defines map
    contentNoDefines, \* combineWithLayout's contentNoDefines
    result,           \* what the last Compile returned
    compiled,         \* the text the last compilation from source produced
    cacheFile,        \* content of the page's .compiled file in the cache directory
    components,       \* the files under templatesDir/components: name -> text
    buf,              \* CacheManager.Set's bytes.Buffer
    \* ---- BladeEngine, FileWatcher --------------------------------------
    development,  \* config.Development
    epc,          \* position of NewBladeEngineWithConfig
    todo,         \* the files PreloadTemplates' walk has yet to visit
    watcher,      \* the fsnotify watcher: "none", "running" or "closed"
    pending,      \* events in fw.watcher.Events: names of changed files
    changed,      \* files written since the constructor returned, their event not handled
    manifest,     \* c.manifest: the names registerCompiled has recorded
    call,         \* the engine call in progress, after its ParseTemplate
    invalidated,  \* changed files whose ClearCacheFor or ClearCache has returned since
    \* ---- the goroutines of startCleanupRoutine and FileWatcher.Start -----
    sweeper,      \* startCleanupRoutine: "running" or "returned"
    stopCleanup,  \* cm.stopCleanup: "open" or "closed"
    watchLoop,    \* the goroutine of FileWatcher.Start: "none", "running" or "returned"
    \* ---- BladeEngine.chooseCompilerFor ---------------------------------
    mode,               \* b.mode
    autoModeExtensions, \* b.autoModeExtensions
    mu,                 \* b.mu: the call that holds it, or NoOne
    lastUsedCompiler,   \* b.lastUsedCompiler
    usageCounts,        \* b.usageCounts
    ccall,              \* per caller: its chooseCompilerFor / render call
    calls               \* the number of chooseCompilerFor calls that have returned

mvars == <<items, currentSize, now, cacheFiles, rpc, last>>
kvars == <<childSrc, layoutSrc, pc, content, layout, compiledLayout, defines,
           contentNoDefines, result, compiled, cacheFile, components, buf>>
svars == <<mode, autoModeExtensions, mu, lastUsedCompiler, usageCounts, ccall, calls>>
gvars == <<sweeper, stopCleanup, watchLoop>>
evars == <<development, svars, gvars, invalidated,
           epc, todo, watcher, pending, changed, manifest, call>>
vars == <<items, currentSize, now, cacheFiles, rpc, last,
          childSrc, layoutSrc, pc, content, layout, compiledLayout, defines,
          contentNoDefines, result, compiled, cacheFile, components, buf,
          development, epc, todo, watcher, pending, changed, manifest, call,
          invalidated, sweeper, stopCleanup, watchLoop,
          mode, autoModeExtensions, mu, lastUsedCompiler, usageCounts, ccall, calls>>

\* no Compile has returned yet / the .compiled file does not exist
NoResult == [err |-> "none", content |-> <<>>, cached |-> FALSE]
NoFile == [exists |-> FALSE, content |-> <<>>]

\* rev: 1 when the text the call compiled was read after the file changed
NoEngineCall == [op |-> "none", f |-> "", err |-> "nil", rev |-> 0]

\* the engine while SpecCache and SpecCompiler run: constructed for
\* production, nothing preloaded, no watcher
EngineAtRest ==
    /\ development = FALSE
    /\ epc = "returned"
    /\ todo = <<>>
    /\ watcher = "none"
    /\ pending = {}
    /\ changed = {}
    /\ manifest = {}
    /\ call = NoEngineCall
    /\ invalidated = {}
    /\ watchLoop = "none"

\* b.mu is free
NoOne == "none"
NoChoice == [pc |-> "idle", templateName |-> <<>>, chosen |-> "", n |-> 0,
             err |-> "none", text |-> <<>>]

\* the engine's compiler choice while the other specifications run: blade
\* mode, the default extensions, no call made
ChooserAtRest ==
    /\ mode = "blade"
    /\ autoModeExtensions = << <<".gohtml">>, <<".html">> >>
    /\ mu = NoOne
    /\ lastUsedCompiler = ""
    /\ usageCounts = [blade |-> 0, go |-> 0]
    /\ ccall = [c \in Procs |-> NoChoice]
    /\ calls = 0

\* the Compiler while SpecCache runs: no page, no call in progress
CompilerAtRest ==
    /\ childSrc = <<>>
    /\ layoutSrc = <<>>
    /\ pc = "idle"
    /\ content = <<>>
    /\ layout = ""
    /\ compiledLayout = <<>>
    /\ defines = <<>>
    /\ contentNoDefines = <<>>
    /\ result = NoResult
    /\ compiled = <<>>
    /\ cacheFile = NoFile
    /\ components = <<>>
    /\ buf = <<>>

(***************************************************************************)
(* Helpers on the items map.                                               *)
(***************************************************************************)
NoItems == [k \in {} |-> [CreatedAt |-> 0, LastUsedAt |-> 0, Size |-> 0]]

RECURSIVE SumSizes(_, _)
SumSizes(its, ks) ==
    IF ks = {} THEN 0
    ELSE LET k == CHOOSE x \in ks : TRUE
         IN its[k].Size + SumSizes(its, ks \ {k})

Restrict(its, ks) == [k \in ks |-> its[k]]

Idle == [pc |-> "idle", key |-> "", t |-> 0, size |-> 0]
NoCall == [op |-> "none", err |-> "nil"]

\* sync.RWMutex: a writer waits until no reader holds the read lock
ReadersHold == \E p \in Procs : rpc[p].pc = "getHit"

(***************************************************************************)
(* CacheManager.evictOldItems: drop every entry whose age exceeds ttl or   *)
(* that was last used more than 2*ttl ago; the files are left on disk.     *)
(***************************************************************************)
\* mutant: the eviction drops every entry, stale or not
evictOldItems_All(its, cs, t) ==
    [items |-> Restrict(its, {}), currentSize |-> cs - SumSizes(its, DOMAIN its)]

evictOldItems(its, cs, t) ==
    LET keysToRemove == {k \in DOMAIN its :
                            \/ t - its[k].CreatedAt > ttl
                            \/ t - its[k].LastUsedAt > ttl * 2}
    IN [items |-> Restrict(its, DOMAIN its \ keysToRemove),
        currentSize |-> cs - SumSizes(its, keysToRemove)]

(***************************************************************************)
(* CacheManager.Set, the map and size part: evict when over budget, fail   *)
(* when still over budget, else store the entry and add its size.          *)
(***************************************************************************)
\* mutant: the second budget test is missing, the entry is stored regardless
SetResult_NoRecheck(its, cs, k, s, t) ==
    LET ev == IF cs + s > maxSize THEN evictOldItems(its, cs, t)
              ELSE [items |-> its, currentSize |-> cs]
    IN [items |-> [j \in DOMAIN ev.items \cup {k} |->
                      IF j = k THEN [CreatedAt |-> t, LastUsedAt |-> t, Size |-> s]
                      ELSE ev.items[j]],
        currentSize |-> ev.currentSize + s,
        err |-> "nil"]

SetResult(its, cs, k, s, t) ==
    LET ev == IF cs + s > maxSize THEN evictOldItems(its, cs, t)
              ELSE [items |-> its, currentSize |-> cs]
    IN IF ev.currentSize + s > maxSize
       THEN [items |-> ev.items, currentSize |-> ev.currentSize, err |-> "cache is full"]
       ELSE [items |-> [j \in DOMAIN ev.items \cup {k} |->
                           IF j = k THEN [CreatedAt |-> t, LastUsedAt |-> t, Size |-> s]
                           ELSE ev.items[j]],
             currentSize |-> ev.currentSize + s,
             err |-> "nil"]

\* mutant: the sweep measures age from the last use
IsExpired_ByLastUse(it, t) == t - it.LastUsedAt > ttl

\* cleanupExpiredItems' test of one entry
IsExpired(it, t) == t - it.CreatedAt > ttl

(***************************************************************************)
(* renderWithCache, step 1: cacheManager.Get.  Get takes the read lock; on *)
(* a hit it reads time.Now() and then stores it in item.LastUsedAt, so two *)
(* concurrent Gets store in either order.  On a miss it returns at once.   *)
(***************************************************************************)
GetHit(p, k) ==
    /\ rpc[p].pc = "idle"
    /\ k \in DOMAIN items
    /\ rpc' = [rpc EXCEPT ![p] = [pc |-> "getHit", key |-> k, t |-> now, size |-> 0]]
    /\ UNCHANGED <<items, currentSize, now, cacheFiles, last>>
    /\ UNCHANGED kvars
    /\ UNCHANGED evars

GetStore(p) ==
    /\ rpc[p].pc = "getHit"
    /\ items' = [items EXCEPT ![rpc[p].key].LastUsedAt = rpc[p].t]
    /\ rpc' = [rpc EXCEPT ![p] = Idle]
    /\ last' = [op |-> "Get", err |-> "nil"]
    /\ UNCHANGED <<currentSize, now, cacheFiles>>
    /\ UNCHANGED kvars
    /\ UNCHANGED evars

GetMiss(p, k) ==
    /\ rpc[p].pc = "idle"
    /\ k \notin DOMAIN items
    /\ rpc' = [rpc EXCEPT ![p] = [pc |-> "compile", key |-> k, t |-> 0, size |-> 0]]
    /\ last' = [op |-> "Get", err |-> "miss"]
    /\ UNCHANGED <<items, currentSize, now, cacheFiles>>
    /\ UNCHANGED kvars
    /\ UNCHANGED evars

(***************************************************************************)
(* renderWithCache, step 2: compileAndCacheTemplate, outside any lock.  It *)
(* returns the parsed template and its estimated size, or an error.        *)
(***************************************************************************)
compileAndCacheTemplate(p) ==
    /\ rpc[p].pc = "compile"
    /\ \/ \E s \in 0..MaxItemSize :
            rpc' = [rpc EXCEPT ![p] = [pc |-> "set", key |-> rpc[p].key, t |-> 0, size |-> s]]
       \/ rpc' = [rpc EXCEPT ![p] = Idle]
    /\ UNCHANGED <<items, currentSize, now, cacheFiles, last>>
    /\ UNCHANGED kvars
    /\ UNCHANGED evars

(***************************************************************************)
(* renderWithCache, step 3: cacheManager.Set under the write lock.  A      *)
(* successful Set writes <key>.compiled; the write is best effort.         *)
(***************************************************************************)
Set(p) ==
    /\ rpc[p].pc = "set"
    /\ ~ReadersHold
    /\ LET r == SetResult(items, currentSize, rpc[p].key, rpc[p].size, now)
       IN /\ items' = r.items
          /\ currentSize' = r.currentSize
          /\ last' = [op |-> "Set", err |-> r.err]
          /\ IF r.err = "nil"
             THEN \E written \in BOOLEAN :
                    cacheFiles' = IF written THEN cacheFiles \cup {rpc[p].key} ELSE cacheFiles
             ELSE cacheFiles' = cacheFiles
    /\ rpc' = [rpc EXCEPT ![p] = Idle]
    /\ UNCHANGED now
    /\ UNCHANGED kvars
    /\ UNCHANGED evars

(***************************************************************************)
(* CacheManager.Remove (ClearCacheFor): only an entry found in the map is  *)
(* removed, and only then is its file deleted.                             *)
(***************************************************************************)
Remove(k) ==
    /\ ~ReadersHold
    /\ IF k \in DOMAIN items
       THEN /\ currentSize' = currentSize - items[k].Size
            /\ items' = Restrict(items, DOMAIN items \ {k})
            /\ cacheFiles' = cacheFiles \ {k}
       ELSE UNCHANGED <<items, currentSize, cacheFiles>>
    /\ last' = [op |-> "Remove", err |-> "nil"]
    /\ UNCHANGED <<now, rpc>>
    /\ UNCHANGED kvars
    /\ UNCHANGED evars

(***************************************************************************)
(* CacheManager.Clear (ClearCache): new map, zero size, every regular file *)
(* of the cache directory removed.                                         *)
(***************************************************************************)
Clear ==
    /\ ~ReadersHold
    /\ items' = NoItems
    /\ currentSize' = 0
    /\ cacheFiles' = {}
    /\ last' = [op |-> "Clear", err |-> "nil"]
    /\ UNCHANGED <<now, rpc>>
    /\ UNCHANGED kvars
    /\ UNCHANGED evars

(***************************************************************************)
(* CacheManager.cleanupExpiredItems, run by startCleanupRoutine on every   *)
(* tick of its ticker: entries older than ttl leave the map; their files   *)
(* stay.                                                                   *)
(***************************************************************************)
cleanupExpiredItems ==
    /\ sweeper = "running"
    /\ ~ReadersHold
    /\ LET expired == {k \in DOMAIN items : IsExpired(items[k], now)}
       IN /\ items' = Restrict(items, DOMAIN items \ expired)
          /\ currentSize' = currentSize - SumSizes(items, expired)
    /\ last' = [op |-> "cleanupExpiredItems", err |-> "nil"]
    /\ UNCHANGED <<now, cacheFiles, rpc>>
    /\ UNCHANGED kvars
    /\ UNCHANGED evars

\* wall time passes
Tick ==
    /\ now < MaxTime
    /\ now' = now + 1
    /\ UNCHANGED <<items, currentSize, cacheFiles, rpc, last>>
    /\ UNCHANGED kvars
    /\ UNCHANGED evars

NewCacheManager ==
    /\ items = NoItems
    /\ currentSize = 0
    /\ now = 0
    /\ cacheFiles = {}
    /\ rpc = [p \in Procs |-> Idle]
    /\ last = NoCall
    /\ stopCleanup = "open"
    /\ sweeper = "running"

InitCache == NewCacheManager /\ CompilerAtRest /\ EngineAtRest /\ ChooserAtRest

NextCache ==
    \/ \E p \in Procs, k \in Keys : GetHit(p, k)
    \/ \E p \in Procs : GetStore(p)
    \/ \E p \in Procs, k \in Keys : GetMiss(p, k)
    \/ \E p \in Procs : compileAndCacheTemplate(p)
    \/ \E p \in Procs : Set(p)
    \/ \E k \in Keys : Remove(k)
    \/ Clear
    \/ cleanupExpiredItems
    \/ Tick

SpecCache == InitCache /\ [][NextCache]_vars

(***************************************************************************)
(*                          C o m p i l e r                                *)
(*                                                                         *)
(* Template text is a sequence of tokens.  A token is a record             *)
(*   k  - its kind                                                         *)
(*   n  - its name or operand ("" when it has none)                        *)
(*   sp - for a host action, whether it is written in the spaced form      *)
(*        "{{ define "x" }}" (TRUE) or the tight form "{{define "x"}}"     *)
(* Kinds: "text"/"space" literal text and whitespace-only text; the        *)
(* directives "@extends" "@section" "@endsection" "@yield" "@endif"        *)
(* "@unless" "@endunless" "@include", the raw interpolation "{!!" and the  *)
(* comment "comment"; the host actions "define" "block" "template" "if"    *)
(* "end" and the output action "action".                                   *)
(***************************************************************************)
Tok(k, n, sp) == [k |-> k, n |-> n, sp |-> sp]
Txt(n) == Tok("text", n, FALSE)
WS == Tok("space", "", FALSE)
Extends(n) == Tok("@extends", n, FALSE)
Section(n) == Tok("@section", n, FALSE)
EndSection == Tok("@endsection", "", FALSE)
Yield(n) == Tok("@yield", n, FALSE)
EndIf == Tok("@endif", "", FALSE)
Define(n, sp) == Tok("define", n, sp)
Block(n, sp) == Tok("block", n, sp)
Template(n, sp) == Tok("template", n, sp)
If(n, sp) == Tok("if", n, sp)
End(sp) == Tok("end", "", sp)
\* {{ e }}: an output action on expression e, in the page an interpolation
Action(e, sp) == Tok("action", e, sp)
\* {!! e !!}
RawBlade(e) == Tok("{!!", e, FALSE)
\* {{-- n --}}; sp is TRUE once it has been rewritten as {{ -- n -- }}
Comment(n, sp) == Tok("comment", n, sp)
Unless(e) == Tok("@unless", e, FALSE)
EndUnless == Tok("@endunless", "", FALSE)
Include(n) == Tok("@include", n, FALSE)

\* the tokens written between "{{" and "}}"
HostKinds == {"define", "block", "template", "if", "end", "action"}
\* the keywords that open a construct closed by {{end}}
OpenKinds == {"define", "block", "if"}

RECURSIVE Flatten(_)
Flatten(ss) == IF ss = <<>> THEN <<>> ELSE Head(ss) \o Flatten(Tail(ss))

Slice(s, a, b) == IF a > b THEN <<>> ELSE SubSeq(s, a, b)

\* index of the first token at or after `from` whose kind is in `kinds`; 0 if none
RECURSIVE FirstKind(_, _, _)
FirstKind(s, from, kinds) ==
    IF from > Len(s) THEN 0
    ELSE IF s[from].k \in kinds THEN from
    ELSE FirstKind(s, from + 1, kinds)

\* strings.TrimSpace, and the \s* of the section pattern at either end
RECURSIVE TrimLeft(_)
TrimLeft(s) == IF s # <<>> /\ Head(s).k = "space" THEN TrimLeft(Tail(s)) ELSE s
RECURSIVE TrimRight(_)
TrimRight(s) ==
    IF s # <<>> /\ s[Len(s)].k = "space" THEN TrimRight(SubSeq(s, 1, Len(s) - 1)) ELSE s
TrimSpace(s) == TrimRight(TrimLeft(s))

\* strings.Count of the tight spelling of the given keywords
CountTight(s, kinds) == Cardinality({i \in 1..Len(s) : s[i].k \in kinds /\ ~s[i].sp})

(***************************************************************************)
(* Compiler.processExtends: the first @extends names the layout, every     *)
(* @extends is removed and the rest is trimmed.                            *)
(***************************************************************************)
processExtends(txt) ==
    LET i == FirstKind(txt, 1, {"@extends"})
    IN IF i = 0 THEN [content |-> txt, layout |-> ""]
       ELSE [content |-> TrimSpace(SelectSeq(txt, LAMBDA t : t.k # "@extends")),
             layout |-> txt[i].n]

(***************************************************************************)
(* Compiler.processSections.  First pattern: each @section up to the first *)
(* @endsection after it becomes {{define "n"}}body{{end}}, the body        *)
(* trimmed.  Second pattern: every @section left (none follows it with an  *)
(* @endsection, or it sits inside a body just matched) becomes             *)
(* {{define "n"}} and the whitespace after it goes.  Then any @section or  *)
(* @endsection still in the text is an error.                              *)
(***************************************************************************)
RECURSIVE sectionPairs(_, _)
sectionPairs(s, from) ==
    LET i == FirstKind(s, from, {"@section"})
        j == IF i = 0 THEN 0 ELSE FirstKind(s, i + 1, {"@endsection"})
    IN IF i = 0 \/ j = 0 THEN Slice(s, from, Len(s))
       ELSE Slice(s, from, i - 1)
            \o <<Define(s[i].n, FALSE)>>
            \o TrimSpace(Slice(s, i + 1, j - 1))
            \o <<End(FALSE)>>
            \o sectionPairs(s, j + 1)

RECURSIVE sectionOpens(_)
sectionOpens(s) ==
    IF s = <<>> THEN <<>>
    ELSE IF Head(s).k = "@section"
         THEN <<Define(Head(s).n, FALSE)>> \o sectionOpens(TrimLeft(Tail(s)))
         ELSE <<Head(s)>> \o sectionOpens(Tail(s))

processSections(txt) ==
    LET c == sectionOpens(sectionPairs(txt, 1))
    IN IF FirstKind(c, 1, {"@section", "@endsection"}) # 0
       THEN [err |-> "unclosed section in template", content |-> <<>>]
       ELSE [err |-> "nil", content |-> c]

\* Compiler.processYield: @yield('n') becomes {{template "n" .}}
processYield(txt) ==
    [i \in 1..Len(txt) |->
        IF txt[i].k = "@yield" THEN Template(txt[i].n, FALSE) ELSE txt[i]]

\* Compiler.processEndif: every @endif becomes {{end}}
processEndif(txt) ==
    [i \in 1..Len(txt) |->
        IF txt[i].k = "@endif" THEN End(FALSE) ELSE txt[i]]

(***************************************************************************)
(* Expressions are opaque texts; the rewriting the passes do on them is    *)
(* tabulated.  dollarToDot is regexp `\$(\w+)` replaced by `.$1`.          *)
(***************************************************************************)
dollarToDot(e) ==
    CASE e = "$x" -> ".x"
      [] e = "$user.Name" -> ".user.Name"
      [] e = "$m[\"key\"]" -> ".m[\"key\"]"
      [] e = "not $x" -> "not .x"
      [] OTHER -> e

\* "raw " + e, the call processRawVariables writes
rawCall(e) ==
    CASE e = ".x" -> "raw .x"
      [] e = ".user.Name" -> "raw .user.Name"
      [] e = ".m[\"key\"]" -> "raw .m[\"key\"]"
      [] OTHER -> e

\* "not " + e, the condition processUnless writes
notCond(e) ==
    CASE e = "$x" -> "not $x"
      [] e = ".x" -> "not .x"
      [] OTHER -> e

\* mutant: the pass wraps a variable in escape, converted already or not
processVariables_Rewrap(txt) ==
    [i \in 1..Len(txt) |->
        IF txt[i].k = "action"
        THEN [txt[i] EXCEPT !.sp = TRUE,
                            !.n = CASE dollarToDot(@) = ".x" -> "escape .x"
                                    [] @ = "escape .x" -> "escape (escape .x)"
                                    [] OTHER -> dollarToDot(@)]
        ELSE IF txt[i].k \in HostKinds \cup {"comment"}
        THEN [txt[i] EXCEPT !.sp = TRUE, !.n = dollarToDot(@)]
        ELSE txt[i]]

(***************************************************************************)
(* Compiler.processVariables: every {{ ... }} span, a comment included, is *)
(* rewritten as "{{ " + expression + " }}".  tryASTToTemplate never        *)
(* succeeds (no AST node has a ToTemplate method), so the expression is    *)
(* the original with $name turned into .name.                              *)
(***************************************************************************)
processVariables(txt) ==
    [i \in 1..Len(txt) |->
        IF txt[i].k \in HostKinds \cup {"comment"}
        THEN [txt[i] EXCEPT !.sp = TRUE, !.n = dollarToDot(@)]
        ELSE txt[i]]

\* Compiler.processRawVariables: {!! e !!} becomes {{raw e'}}, $name in e
\* turned into .name
processRawVariables(txt) ==
    [i \in 1..Len(txt) |->
        IF txt[i].k = "{!!" THEN Action(rawCall(dollarToDot(txt[i].n)), FALSE)
        ELSE txt[i]]

\* Compiler.processComments: every tight {{-- ... --}} is deleted
processComments(txt) == SelectSeq(txt, LAMBDA t : ~(t.k = "comment" /\ ~t.sp))

(***************************************************************************)
(* Compiler.processUnless.  First pattern: @unless(c) up to the first      *)
(* @endunless becomes {{if not c}}body{{end}}, the body trimmed.  Second   *)
(* pattern: an @unless left becomes {{if not c}}.  Then every @endunless   *)
(* becomes {{end}}.                                                        *)
(***************************************************************************)
RECURSIVE unlessPairs(_, _)
unlessPairs(s, from) ==
    LET i == FirstKind(s, from, {"@unless"})
        j == IF i = 0 THEN 0 ELSE FirstKind(s, i + 1, {"@endunless"})
    IN IF i = 0 \/ j = 0 THEN Slice(s, from, Len(s))
       ELSE Slice(s, from, i - 1)
            \o <<If(notCond(s[i].n), FALSE)>>
            \o TrimSpace(Slice(s, i + 1, j - 1))
            \o <<End(FALSE)>>
            \o unlessPairs(s, j + 1)

processUnless(txt) ==
    LET paired == unlessPairs(txt, 1)
    IN [i \in 1..Len(paired) |->
          IF paired[i].k = "@unless" THEN If(notCond(paired[i].n), FALSE)
          ELSE IF paired[i].k = "@endunless" THEN End(FALSE)
          ELSE paired[i]]

(***************************************************************************)
(* Compiler.processAllDirectives applies the passes of its list, in the    *)
(* list's order, and stops at the first error.  processInclude compiles    *)
(* the included file with Compiler.Compile, which runs the same passes on  *)
(* it: `depth` is the number of Compile calls on the goroutine's stack.    *)
(* A chain of includes longer than the number of component files repeats a *)
(* file, so it never ends: the stack grows until the runtime aborts the    *)
(* process.  processIfStatements, processElse, processForeach,             *)
(* processEndForeach and processPhp match no token of the alphabet.        *)
(***************************************************************************)
directives ==
    << "processSections", "processYield", "processInclude", "processIfStatements",
       "processElse", "processEndif", "processForeach", "processEndForeach",
       "processVariables", "processRawVariables", "processComments", "processPhp",
       "processUnless" >>

Ok(txt) == [err |-> "nil", content |-> txt]
Err(e) == [err |-> e, content |-> <<>>]
StackOverflow == "fatal error: stack overflow"

RECURSIVE directive(_, _, _)
RECURSIVE CompileStringAt(_, _)

RECURSIVE applyDirectives(_, _, _, _)
applyDirectives(order, i, txt, depth) ==
    IF i > Len(order) THEN Ok(txt)
    ELSE LET r == directive(order[i], txt, depth)
         IN IF r.err # "nil" THEN r
            ELSE applyDirectives(order, i + 1, r.content, depth)

\* Compiler.processInclude: each @include('n') is replaced by the compiled
\* text of file n; a missing file or a failed compilation is the error.
\* Components are not read from or written to the compiled-file cache.
processInclude(txt, depth) ==
    LET one(t) ==
            IF t.k # "@include" THEN Ok(<<t>>)
            ELSE IF t.n \notin DOMAIN components THEN Err("included template not found")
            ELSE IF depth >= Cardinality(DOMAIN components) THEN Err(StackOverflow)
            ELSE LET r == CompileStringAt(components[t.n], depth + 1)
                 IN IF r.err = "nil" THEN r
                    ELSE IF r.err = StackOverflow THEN r
                    ELSE Err("error compiling included template")
        parts == [i \in 1..Len(txt) |-> one(txt[i])]
        failed == {i \in 1..Len(txt) : parts[i].err # "nil"}
    IN IF failed = {} THEN Ok(Flatten([i \in 1..Len(txt) |-> parts[i].content]))
       ELSE IF \E i \in failed : parts[i].err = StackOverflow THEN Err(StackOverflow)
       ELSE parts[CHOOSE i \in failed : \A j \in failed : j <= i]

directive(name, txt, depth) ==
    CASE name = "processSections" -> processSections(txt)
      [] name = "processYield" -> Ok(processYield(txt))
      [] name = "processInclude" -> processInclude(txt, depth)
      [] name = "processEndif" -> Ok(processEndif(txt))
      [] name = "processVariables" -> Ok(processVariables(txt))
      [] name = "processRawVariables" -> Ok(processRawVariables(txt))
      [] name = "processComments" -> Ok(processComments(txt))
      [] name = "processUnless" -> Ok(processUnless(txt))
      [] OTHER -> Ok(txt)

processAllDirectivesAt(txt, depth) == applyDirectives(directives, 1, txt, depth)
processAllDirectives(txt) == processAllDirectivesAt(txt, 0)

(***************************************************************************)
(* The host engine's parser (html/template Parse, called by                *)
(* validateTemplateSyntax and ParseTemplate).                              *)
(***************************************************************************)
\* index of the {{end}} that closes the construct opened just before `from`,
\* counting nested openers; 0 when the text ends first
RECURSIVE MatchEnd(_, _, _)
MatchEnd(s, from, depth) ==
    IF from > Len(s) THEN 0
    ELSE IF s[from].k \in OpenKinds THEN MatchEnd(s, from + 1, depth + 1)
    ELSE IF s[from].k = "end"
         THEN IF depth = 0 THEN from ELSE MatchEnd(s, from + 1, depth - 1)
    ELSE MatchEnd(s, from + 1, depth)

\* every {{end}} closes an opener, every opener is closed, and {{define}}
\* appears only outside every other construct
RECURSIVE WellNested(_, _, _)
WellNested(s, from, depth) ==
    IF from > Len(s) THEN depth = 0
    ELSE IF s[from].k = "define"
         THEN depth = 0 /\ WellNested(s, from + 1, depth + 1)
    ELSE IF s[from].k \in OpenKinds THEN WellNested(s, from + 1, depth + 1)
    ELSE IF s[from].k = "end"
         THEN depth > 0 /\ WellNested(s, from + 1, depth - 1)
    ELSE WellNested(s, from + 1, depth)

\* parse.IsEmptyTree: a body of nothing but whitespace
IsEmptyTree(body) == \A i \in 1..Len(body) : body[i].k = "space"

\* the positions that define a named template: {{define}} and {{block}}
Definitions(s) == {i \in 1..Len(s) : s[i].k \in {"define", "block"}}
DefinitionBody(s, i) == Slice(s, i + 1, MatchEnd(s, i + 1, 0) - 1)

\* Tree.add / AddParseTree: a second non-empty body for a name is the error
\* "template: multiple definition of template"
MultipleDefinition(s) ==
    \E i, j \in Definitions(s) :
        /\ i < j
        /\ s[i].n = s[j].n
        /\ ~IsEmptyTree(DefinitionBody(s, i))
        /\ ~IsEmptyTree(DefinitionBody(s, j))

\* expressions the host parser refuses: $name is an undefined variable,
\* [ is an unexpected character
HostExprError(e) ==
    e \in {"$x", "$user.Name", "$m[\"key\"]", "not $x",
           ".m[\"key\"]", "raw .m[\"key\"]"}

\* {{-- n --}} and {{ -- n -- }} are no host comments: -- is a bad number
HostLexError(s) ==
    \E i \in 1..Len(s) :
        \/ s[i].k = "comment"
        \/ s[i].k \in {"if", "action"} /\ HostExprError(s[i].n)

HostParse(s) == ~HostLexError(s) /\ WellNested(s, 1, 0) /\ ~MultipleDefinition(s)

(***************************************************************************)
(* Compiler.validateTemplateSyntax: the host parse, then the count of the  *)
(* tight openers "{{if" "{{define" "{{block" against the tight "{{end}}".  *)
(***************************************************************************)
validateTemplateSyntax(txt) ==
    IF ~HostParse(txt) THEN "template syntax error"
    ELSE IF CountTight(txt, OpenKinds) # CountTight(txt, {"end"})
         THEN "unbalanced directives"
    ELSE "nil"

(***************************************************************************)
(* Compiler.combineWithLayout, step by step.                               *)
(***************************************************************************)
NoDefines == [n \in {} |-> <<>>]
Put(defs, n, body) == [m \in DOMAIN defs \cup {n} |-> IF m = n THEN body ELSE defs[m]]

\* the extraction loop as a naive regex would run it: the body stops at the
\* first {{end}} after the {{define}}
RECURSIVE extractDefines_FirstEnd(_, _)
extractDefines_FirstEnd(noDefs, defs) ==
    LET defStart == FirstKind(noDefs, 1, {"define"})
        i == IF defStart = 0 THEN 0 ELSE FirstKind(noDefs, defStart + 1, {"end"})
    IN IF defStart = 0
       THEN [hung |-> FALSE, defines |-> defs, contentNoDefines |-> noDefs]
       ELSE IF i = 0
       THEN [hung |-> TRUE, defines |-> defs, contentNoDefines |-> noDefs]
       ELSE extractDefines_FirstEnd(
                Slice(noDefs, 1, defStart - 1)
                    \o Slice(noDefs, i + 1, Len(noDefs)),
                Put(defs, noDefs[defStart].n,
                    Slice(noDefs, defStart + 1, i - 1)))

\* The extraction loop: take the first {{define}}, scan to the {{end}} at
\* depth 0, record the body under its name and cut the construct out; repeat
\* while a {{define}} is left.  When the scan finds no such {{end}} the text is
\* left as it was and the loop tests the same text again: it never ends.
RECURSIVE extractDefines(_, _)
extractDefines(noDefs, defs) ==
    LET defStart == FirstKind(noDefs, 1, {"define"})
        i == MatchEnd(noDefs, defStart + 1, 0)
    IN IF defStart = 0
       THEN [hung |-> FALSE, defines |-> defs, contentNoDefines |-> noDefs]
       ELSE IF i = 0
       THEN [hung |-> TRUE, defines |-> defs, contentNoDefines |-> noDefs]
       ELSE extractDefines(
                Slice(noDefs, 1, defStart - 1)
                    \o Slice(noDefs, i + 1, Len(noDefs)),
                Put(defs, noDefs[defStart].n,
                    Slice(noDefs, defStart + 1, i - 1)))

\* replaceTemplateWithBody over yieldRe, then the same over anyYieldRe: a
\* {{template "n" .}} whose name has a define becomes that body
replaceTemplates(lay, defs, names) ==
    Flatten([i \in 1..Len(lay) |->
        LET t == lay[i]
        IN IF t.k = "template" /\ t.n \in names /\ t.n \in DOMAIN defs
           THEN defs[t.n] ELSE <<t>>])

inlineTemplates(lay, defs) ==
    replaceTemplates(replaceTemplates(lay, defs, {"content"}),
                     defs, DOMAIN defs)

\* one ReplaceAllStringFunc over blockRe: each {{block "n" .}} up to the first
\* {{end}} after it is replaced by the define of n, or by the text in between
RECURSIVE replaceBlocksOnce(_, _, _)
replaceBlocksOnce(s, from, defs) ==
    LET i == FirstKind(s, from, {"block"})
        j == IF i = 0 THEN 0 ELSE FirstKind(s, i + 1, {"end"})
    IN IF i = 0 \/ j = 0 THEN Slice(s, from, Len(s))
       ELSE Slice(s, from, i - 1)
            \o (IF s[i].n \in DOMAIN defs THEN defs[s[i].n]
                ELSE Slice(s, i + 1, j - 1))
            \o replaceBlocksOnce(s, j + 1, defs)

blockReMatches(s) ==
    LET i == FirstKind(s, 1, {"block"})
    IN i # 0 /\ FirstKind(s, i + 1, {"end"}) # 0

\* the loop around it: until no block matches or a pass changes nothing
RECURSIVE replaceBlocks(_, _)
replaceBlocks(lay, defs) ==
    IF ~blockReMatches(lay) THEN lay
    ELSE LET after == replaceBlocksOnce(lay, 1, defs)
         IN IF after = lay THEN lay
            ELSE replaceBlocks(after, defs)

\* the page text that follows the layout
appendContent(lay, noDefs, txt) ==
    lay \o (IF noDefs # <<>> THEN noDefs ELSE txt)

\* strings.Contains(compiledLayout, "{{define \"nm\"}}") or "{{block \"nm\"":
\* only a tight token is such a substring
alreadyDefined(lay, nm) ==
    \E i \in 1..Len(lay) :
        /\ lay[i].k \in {"define", "block"}
        /\ lay[i].n = nm
        /\ ~lay[i].sp

\* the defs builder, for one order of the iteration over the map
prependDefines(lay, defs, order) ==
    Flatten([i \in 1..Len(order) |->
        IF alreadyDefined(lay, order[i]) THEN <<>>
        ELSE <<Define(order[i], FALSE)>> \o defs[order[i]] \o <<End(FALSE)>>])
    \o lay

\* the orders in which `range defines` can visit a map's keys
Orders(S) == {o \in [1..Cardinality(S) -> S] : \A n \in S : \E i \in DOMAIN o : o[i] = n}

\* Compiler.CompileString for a text that names no layout (a layout file or
\* a component), `depth` Compile calls deep
CompileStringAt(src, depth) ==
    LET e == processExtends(src)
        d == processAllDirectivesAt(e.content, depth)
    IN IF d.err = StackOverflow THEN d
       ELSE IF d.err # "nil" THEN [err |-> "error processing directives", content |-> <<>>]
       ELSE IF validateTemplateSyntax(d.content) # "nil"
       THEN [err |-> "invalid template syntax", content |-> <<>>]
       ELSE [err |-> "nil", content |-> d.content]

CompileString(src) == CompileStringAt(src, 0)

(***************************************************************************)
(* Template.Execute with the empty data map, as CacheManager.Set calls it: *)
(* text is written, {{if .x}} is false, {{define}} writes nothing,         *)
(* {{block}} and {{template}} write the named template's body, and a       *)
(* {{template}} with no such template stops the execution with what has    *)
(* been written so far.  {{ .x }} writes the empty text for the missing    *)
(* key; a field of the missing key and a call on it (raw, escape) stop the *)
(* execution.  `depth` bounds the nesting of template calls.               *)
(***************************************************************************)
templateBodies(s) ==
    [n \in {s[i].n : i \in Definitions(s)} |->
        LET i == CHOOSE i \in Definitions(s) :
                    /\ s[i].n = n
                    /\ \A j \in Definitions(s) :
                          (s[j].n = n /\ ~IsEmptyTree(DefinitionBody(s, j))) => j = i
        IN DefinitionBody(s, i)]

RECURSIVE exec(_, _, _, _)
exec(s, from, bodies, depth) ==
    IF from > Len(s) THEN [out |-> <<>>, ok |-> TRUE]
    ELSE LET t == s[from]
             close == MatchEnd(s, from + 1, 0)
             called == IF t.k \in {"block", "template"}
                       THEN IF t.n \in DOMAIN bodies /\ depth > 0
                            THEN exec(bodies[t.n], 1, bodies, depth - 1)
                            ELSE [out |-> <<>>, ok |-> FALSE]
                       ELSE IF t.k = "action" /\ t.n # ".x"
                       THEN [out |-> <<>>, ok |-> FALSE]
                       ELSE [out |-> IF t.k \in {"text", "space"} THEN <<t>> ELSE <<>>,
                             ok |-> TRUE]
             next == IF t.k \in OpenKinds THEN close + 1 ELSE from + 1
         IN IF ~called.ok THEN called
            ELSE LET rest == exec(s, next, bodies, depth)
                 IN [out |-> called.out \o rest.out, ok |-> rest.ok]

Execute(s) == exec(s, 1, templateBodies(s), MaxExecDepth).out

(***************************************************************************)
(* The template files.  A page is an optional @extends('layouts/l')        *)
(* followed by up to MaxSections sections, each                            *)
(*     @section('n') <ws> body <ws> closer                                 *)
(* with the closer @endsection, nothing (the section is left open) or a    *)
(* stray @endif, and with or without whitespace between two sections.  A   *)
(* layout is text, a {{block "a" .}} with one of several default bodies    *)
(* (plain, with a conditional, with a nested block) and the content        *)
(* placeholder.                                                            *)
(***************************************************************************)
SectionNames == <<"a", "b", "content">>
SectionText == [a |-> "Sa", b |-> "Sb", content |-> "Sc"]
SectionBodies(n) ==
    { <<Txt(SectionText[n])>>,
      <<If("c", FALSE), Txt(SectionText[n]), End(FALSE), Txt("T")>> }
AllSectionBodies == UNION {SectionBodies(SectionNames[i]) : i \in 1..Len(SectionNames)}
Closers == { <<EndSection>>, <<>>, <<EndIf>> }
SectionSrc(n, body, closer) == <<Section(n), WS>> \o body \o <<WS>> \o closer

\* the strictly increasing index lists into SectionNames, of 1..MaxSections names
Picks ==
    {p \in UNION {[1..k -> 1..Len(SectionNames)] : k \in 1..MaxSections} :
        \A i \in DOMAIN p : \A j \in DOMAIN p : i < j => p[i] < p[j]}

RECURSIVE Join(_, _)
Join(parts, sep) ==
    IF Len(parts) = 0 THEN <<>>
    ELSE IF Len(parts) = 1 THEN parts[1]
    ELSE parts[1] \o sep \o Join(Tail(parts), sep)

Pages ==
    UNION {
        LET parts == UNION {
                {[i \in DOMAIN p |-> SectionSrc(SectionNames[p[i]], b[i], c[i])] :
                    b \in {f \in [DOMAIN p -> AllSectionBodies] :
                              \A i \in DOMAIN p : f[i] \in SectionBodies(SectionNames[p[i]])}}
                : c \in [DOMAIN p -> Closers]}
        IN {Join(ps, sep) : ps \in parts, sep \in {<<>>, <<WS>>}}
        : p \in Picks }

Defaults ==
    { <<Txt("D1")>>,
      <<If("c", FALSE), Txt("D1"), End(FALSE), Txt("D2")>>,
      <<Txt("D1"), Block("b", FALSE), Txt("D2"), End(FALSE), Txt("D3")>>,
      <<Block("b", FALSE), Txt("D2"), End(FALSE)>> }

(***************************************************************************)
(* Pages without a layout: one or two of an interpolation, a raw           *)
(* interpolation, a comment, an @unless block, a host conditional and an   *)
(* @include, between texts.                                                *)
(***************************************************************************)
Exprs == {"$x", "$user.Name", "$m[\"key\"]"}
ExprAtoms ==
    { <<Action(e, TRUE)>> : e \in Exprs }
    \cup { <<Action("$x", FALSE)>>,
           <<RawBlade("$x")>>,
           <<Comment("note", FALSE)>>,
           <<Unless("$x"), WS, Txt("U"), WS, EndUnless>>,
           <<If(".x", FALSE), Txt("I"), End(FALSE)>>,
           <<Include("components/c")>> }
ExprPages ==
    { <<Txt("H"), WS>> \o a : a \in ExprAtoms }
    \cup { a \o <<WS>> \o b : a \in ExprAtoms, b \in ExprAtoms }

\* the files under components/: none, a plain one, one that includes a
\* plain one, one that includes itself, two that include each other
ComponentSets ==
    { <<>>,
      [n \in {"components/c"} |-> <<Txt("C"), Action("$x", TRUE)>>],
      [n \in {"components/c", "components/d"} |->
          IF n = "components/c" THEN <<Txt("C"), Include("components/d")>>
          ELSE <<Txt("D")>>],
      [n \in {"components/c"} |-> <<Txt("C"), Include("components/c")>>],
      [n \in {"components/c", "components/d"} |->
          IF n = "components/c" THEN <<Txt("C"), Include("components/d")>>
          ELSE <<Txt("D"), Include("components/c")>>] }

Layouts ==
    { <<Txt("L0"), Block("a", FALSE)>> \o d \o <<End(FALSE), Yield("content")>> : d \in Defaults }
    \cup { <<Txt("L0"), Block("a", FALSE), Txt("D1"), End(FALSE),
             Block("b", FALSE), Txt("D2"), End(FALSE), Yield("content")>>,
           <<Txt("L0"), Yield("a"), Yield("content")>> }

(***************************************************************************)
(* Compiler.Compile of the page, in blade mode.  The page lies under       *)
(* pages/, so shouldWriteCompiled is true; the page file is not edited     *)
(* while the engine runs, so an existing .compiled file is always newer    *)
(* than the page.                                                          *)
(***************************************************************************)
\* the page's name relative to templatesDir, its key in the manifest
PageName == "pages/a"

Return(err, txt, fromCache) ==
    /\ result' = [err |-> err, content |-> txt, cached |-> fromCache]
    /\ pc' = "idle"

\* the layout file is rewritten on disk while the page's .compiled file
\* exists: its leading text changes.  The page file is not touched, so the
\* .compiled file stays newer than the page.
editedLayout(src) ==
    [i \in DOMAIN src |-> IF src[i] = Txt("L0") THEN Txt("L1") ELSE src[i]]

WriteLayoutFile ==
    /\ pc = "idle"
    /\ cacheFile.exists
    /\ layoutSrc \in Layouts
    /\ layoutSrc' = editedLayout(layoutSrc)
    /\ UNCHANGED <<childSrc, pc, content, layout, compiledLayout, defines,
                   contentNoDefines, result, compiled, cacheFile>>
    /\ UNCHANGED mvars
    /\ UNCHANGED evars
    /\ UNCHANGED <<components, buf>>

\* the cache file is fresh: its content is returned as the compiled text
Compile_ReadCache ==
    /\ pc = "idle"
    /\ cacheFile.exists
    /\ Return("nil", cacheFile.content, TRUE)
    /\ UNCHANGED <<childSrc, layoutSrc, content, layout, compiledLayout, defines,
                   contentNoDefines, compiled, cacheFile>>
    /\ UNCHANGED mvars
    /\ UNCHANGED evars
    /\ UNCHANGED <<components, buf>>

\* no cache file: the page is read and handed to CompileString
Compile_ReadFile ==
    /\ pc = "idle"
    /\ ~cacheFile.exists
    /\ content' = childSrc
    /\ layout' = ""
    /\ compiledLayout' = <<>>
    /\ defines' = NoDefines
    /\ contentNoDefines' = <<>>
    /\ pc' = "processExtends"
    /\ UNCHANGED <<childSrc, layoutSrc, result, compiled, cacheFile>>
    /\ UNCHANGED mvars
    /\ UNCHANGED evars
    /\ UNCHANGED <<components, buf>>

\* CompileString, step 1
CompileString_processExtends ==
    /\ pc = "processExtends"
    /\ LET r == processExtends(content)
       IN /\ content' = r.content
          /\ layout' = r.layout
    /\ pc' = "processAllDirectives"
    /\ UNCHANGED <<childSrc, layoutSrc, compiledLayout, defines, contentNoDefines,
                   result, compiled, cacheFile>>
    /\ UNCHANGED mvars
    /\ UNCHANGED evars
    /\ UNCHANGED <<components, buf>>

\* CompileString, step 2
CompileString_processAllDirectives ==
    /\ pc = "processAllDirectives"
    /\ LET r == processAllDirectives(content)
       IN IF r.err = StackOverflow
          THEN /\ pc' = "crashed"
               /\ UNCHANGED <<content, result>>
          ELSE IF r.err # "nil"
          THEN /\ Return(r.err, <<>>, FALSE)
               /\ UNCHANGED content
          ELSE /\ content' = r.content
               /\ pc' = IF layout # "" THEN "combineWithLayout" ELSE "validate"
               /\ UNCHANGED result
    /\ UNCHANGED <<childSrc, layoutSrc, layout, compiledLayout, defines,
                   contentNoDefines, compiled, cacheFile>>
    /\ UNCHANGED mvars
    /\ UNCHANGED evars
    /\ UNCHANGED <<components, buf>>

\* combineWithLayout: the layout is compiled, then the page's defines are
\* extracted; pc "spinning" is the extraction loop that never ends
combineWithLayout_extract ==
    /\ pc = "combineWithLayout"
    /\ LET l == CompileString(layoutSrc)
           x == extractDefines(content, NoDefines)
       IN IF l.err # "nil"
          THEN /\ Return("error compiling layout", <<>>, FALSE)
               /\ UNCHANGED <<compiledLayout, defines, contentNoDefines>>
          ELSE /\ compiledLayout' = l.content
               /\ defines' = x.defines
               /\ contentNoDefines' = x.contentNoDefines
               /\ pc' = IF x.hung THEN "spinning" ELSE "inline"
               /\ UNCHANGED result
    /\ UNCHANGED <<childSrc, layoutSrc, content, layout, compiled, cacheFile>>
    /\ UNCHANGED mvars
    /\ UNCHANGED evars
    /\ UNCHANGED <<components, buf>>

combineWithLayout_inline ==
    /\ pc = "inline"
    /\ compiledLayout' = inlineTemplates(compiledLayout, defines)
    /\ pc' = "blocks"
    /\ UNCHANGED <<childSrc, layoutSrc, content, layout, defines, contentNoDefines,
                   result, compiled, cacheFile>>
    /\ UNCHANGED mvars
    /\ UNCHANGED evars
    /\ UNCHANGED <<components, buf>>

combineWithLayout_blocks ==
    /\ pc = "blocks"
    /\ compiledLayout' = replaceBlocks(compiledLayout, defines)
    /\ pc' = "append"
    /\ UNCHANGED <<childSrc, layoutSrc, content, layout, defines, contentNoDefines,
                   result, compiled, cacheFile>>
    /\ UNCHANGED mvars
    /\ UNCHANGED evars
    /\ UNCHANGED <<components, buf>>

\* the page text is appended and the defines prepended, in any order of the
\* map; the result is CompileString's content.  compiledLayout keeps the
\* layout part as the block loop left it.
combineWithLayout_return ==
    /\ pc = "append"
    /\ \E order \in Orders(DOMAIN defines) :
          content' = prependDefines(
                        appendContent(compiledLayout, contentNoDefines, content),
                        defines, order)
    /\ pc' = "validate"
    /\ UNCHANGED <<childSrc, layoutSrc, layout, compiledLayout, defines,
                   contentNoDefines, result, compiled, cacheFile>>
    /\ UNCHANGED mvars
    /\ UNCHANGED evars
    /\ UNCHANGED <<components, buf>>

\* CompileString, step 4
CompileString_validate ==
    /\ pc = "validate"
    /\ IF validateTemplateSyntax(content) # "nil"
       THEN Return("invalid template syntax", <<>>, FALSE)
       ELSE pc' = "write" /\ UNCHANGED result
    /\ UNCHANGED <<childSrc, layoutSrc, content, layout, compiledLayout, defines,
                   contentNoDefines, compiled, cacheFile>>
    /\ UNCHANGED mvars
    /\ UNCHANGED evars
    /\ UNCHANGED <<components, buf>>

\* Compile writes the compiled text to the cache file, best effort, and returns it
Compile_WriteFile ==
    /\ pc = "write"
    /\ \E written \in BOOLEAN :
          /\ cacheFile' = IF written THEN [exists |-> TRUE, content |-> content]
                          ELSE cacheFile
          /\ manifest' = IF written THEN manifest \cup {PageName} ELSE manifest
    /\ compiled' = content
    /\ Return("nil", content, FALSE)
    /\ UNCHANGED <<childSrc, layoutSrc, content, layout, compiledLayout, defines,
                   contentNoDefines>>
    /\ UNCHANGED mvars
    /\ UNCHANGED <<development, svars, gvars, invalidated,
                   epc, todo, watcher, pending, changed, call>>
    /\ UNCHANGED <<components, buf>>

(***************************************************************************)
(* compileAndCacheTemplate after a Compile that returned no error:         *)
(* ParseTemplate parses the returned text and CacheManager.Set writes the  *)
(* output of tmpl.Execute(&buf, map[string]interface{}{}) to               *)
(* <cm.cacheDir>/<key with / as _>.compiled.  With TemplatesDir            *)
(* "./templates" the compiler's cacheDir, Dir(templatesDir)/cache, is the  *)
(* same directory as cm.cacheDir "./cache", and the compiler's file name   *)
(* for pages/x is the same name: one file.                                 *)
(***************************************************************************)
\* cm.mutex.Lock(); the deferred Unlock runs when Set returns
Set_Lock ==
    /\ pc = "idle"
    /\ result.err = "nil"
    /\ HostParse(result.content)
    /\ pc' = "Set"
    /\ UNCHANGED <<childSrc, layoutSrc, content, layout, compiledLayout, defines,
                   contentNoDefines, result, compiled, cacheFile, components, buf>>
    /\ UNCHANGED mvars
    /\ UNCHANGED evars

\* tmpl.Execute(&buf, map[string]interface{}{})
Set_Execute ==
    /\ pc = "Set"
    /\ buf' = Execute(result.content)
    /\ pc' = "Set_WriteFile"
    /\ UNCHANGED <<childSrc, layoutSrc, content, layout, compiledLayout, defines,
                   contentNoDefines, result, compiled, cacheFile, components>>
    /\ UNCHANGED mvars
    /\ UNCHANGED evars

\* os.WriteFile(cacheFile, buf); return
Set_WriteFile ==
    /\ pc = "Set_WriteFile"
    /\ cacheFile' = [exists |-> TRUE, content |-> buf]
    /\ pc' = "idle"
    /\ UNCHANGED <<childSrc, layoutSrc, content, layout, compiledLayout, defines,
                   contentNoDefines, result, compiled, components, buf>>
    /\ UNCHANGED mvars
    /\ UNCHANGED evars

\* the Compile/Set call holds cm.mutex exclusively
mutexHeld == pc \in {"Set", "Set_WriteFile"}

InitCompiler ==
    /\ NewCacheManager
    /\ EngineAtRest
    /\ ChooserAtRest
    /\ \/ /\ childSrc \in {<<Extends("layouts/l"), WS>> \o p : p \in Pages} \cup Pages
          /\ layoutSrc \in Layouts
          /\ components = <<>>
       \/ /\ childSrc \in ExprPages
          /\ layoutSrc = <<Txt("L0"), Yield("content")>>
          /\ components \in ComponentSets
    /\ pc = "idle"
    /\ content = <<>>
    /\ layout = ""
    /\ compiledLayout = <<>>
    /\ defines = NoDefines
    /\ contentNoDefines = <<>>
    /\ result = NoResult
    /\ compiled = <<>>
    /\ cacheFile = NoFile
    /\ buf = <<>>

NextCompiler ==
    \/ Compile_ReadCache
    \/ Compile_ReadFile
    \/ CompileString_processExtends
    \/ CompileString_processAllDirectives
    \/ combineWithLayout_extract
    \/ combineWithLayout_inline
    \/ combineWithLayout_blocks
    \/ combineWithLayout_return
    \/ CompileString_validate
    \/ Compile_WriteFile
    \/ Set_Lock
    \/ Set_Execute
    \/ Set_WriteFile
    \/ WriteLayoutFile

SpecCompiler == InitCompiler /\ [][NextCompiler]_vars

(***************************************************************************)
(* Claims about the cache (checked under SpecCache).                       *)
(***************************************************************************)

\* C5: in every reachable state of the cache the tracked current size is at
\* most the configured maximum size.
C5_SizeWithinMax == currentSize <= maxSize

\* a Set was refused with the cache exactly full
C5_Witness ==
    /\ last = [op |-> "Set", err |-> "cache is full"]
    /\ currentSize = maxSize

\* C6: the tracked current size equals the sum of the sizes of the entries
\* present in the map, also after two render calls that missed on the same
\* key both called Set.
C6_SizeEqualsSumOfEntries == currentSize = SumSizes(items, DOMAIN items)

\* C7 (as claimed): every entry present in the cache has age at most the TTL.
C7_EveryEntryWithinTTL ==
    \A k \in DOMAIN items : now - items[k].CreatedAt <= ttl

\* C7 (amended): every entry the background sweep leaves in the cache has
\* age at most the TTL at the time of the sweep.
C7_SweepLeavesOnlyFresh ==
    [][cleanupExpiredItems =>
          \A k \in DOMAIN items' : now' - items'[k].CreatedAt <= ttl]_vars

\* a sweep has just run after the TTL elapsed, dropped an entry whose file is
\* still on disk, and kept another
C7_Witness ==
    /\ last.op = "cleanupExpiredItems"
    /\ now > ttl
    /\ DOMAIN items # {}
    /\ cacheFiles \ DOMAIN items # {}

\* C8: a Set that would push the tracked size over the maximum evicts exactly
\* the entries that are TTL-expired or unused for more than 2*TTL; when the
\* entry still does not fit it returns "cache is full", leaves the entry for
\* the key as it was and does not increase the tracked size.
C8_Stale(it, t) == t - it.CreatedAt > ttl \/ t - it.LastUsedAt > 2 * ttl

C8_SetEvictsOnlyStale ==
    [][\A p \in Procs :
          (Set(p) /\ currentSize + rpc[p].size > maxSize) =>
             LET k == rpc[p].key
                 s == rpc[p].size
                 stale == {j \in DOMAIN items : C8_Stale(items[j], now)}
                 fits == currentSize - SumSizes(items, stale) + s <= maxSize
             IN /\ \A j \in DOMAIN items \ {k} :
                       (j \in DOMAIN items') <=> (j \notin stale)
                /\ (last'.err = "cache is full") <=> ~fits
                /\ ~fits => /\ currentSize' <= currentSize
                            /\ k \in DOMAIN items' =>
                                  /\ k \in DOMAIN items \ stale
                                  /\ items'[k] = items[k]
                            /\ cacheFiles' = cacheFiles
                /\ fits => /\ k \in DOMAIN items'
                           /\ items'[k].Size = s]_vars

\* a Set over budget was refused
C8_Witness ==
    /\ last = [op |-> "Set", err |-> "cache is full"]
    /\ currentSize + 1 > maxSize
    /\ DOMAIN items # {}

\* C9: after Remove(name) returns there is neither an in-memory entry nor a
\* disk file for name; after Clear() returns there are no entries, the size
\* is zero and no file is left in the cache directory.
C9_RemoveAndClearLeaveNothing ==
    [][/\ \A k \in Keys :
             Remove(k) => (k \notin DOMAIN items' /\ k \notin cacheFiles')
       /\ Clear => (DOMAIN items' = {} /\ currentSize' = 0 /\ cacheFiles' = {})]_vars

\* C13: every write to the shared cache state is made under the exclusive
\* lock: when Get stores an entry's last-access time, no other call is inside
\* the lock's critical section.
C13_WritesUnderExclusiveLock ==
    [][\A p \in Procs :
          GetStore(p) => \A q \in Procs \ {p} : rpc[q].pc # "getHit"]_vars

(***************************************************************************)
(* Claims about the compiler (checked under SpecCompiler).                 *)
(***************************************************************************)
\* what the page and the layout say, read off the files themselves
C_Kinds(s, kinds) == {i \in 1..Len(s) : s[i].k \in kinds}
C_TextAtoms(s) == {s[i].n : i \in C_Kinds(s, {"text"})}
C_SectionNames(src) == {src[i].n : i \in C_Kinds(src, {"@section"})}
\* every section of the page is closed by its own @endsection
C_AllClosed(src) ==
    /\ Cardinality(C_Kinds(src, {"@section"})) = Cardinality(C_Kinds(src, {"@endsection"}))
    /\ C_Kinds(src, {"@endif"}) = {}
\* some section of the page has no @endsection
C_HasUnclosedSection(src) ==
    Cardinality(C_Kinds(src, {"@section"})) > Cardinality(C_Kinds(src, {"@endsection"}))
C_SectionBody(src, n) ==
    LET i == CHOOSE i \in C_Kinds(src, {"@section"}) : src[i].n = n
    IN TrimSpace(Slice(src, i + 1, FirstKind(src, i + 1, {"@endsection"}) - 1))
\* the layout's blocks, each closed by the {{end}} that belongs to it
C_BlockNames(lay) == {lay[i].n : i \in C_Kinds(lay, {"block"})}
C_BlockAt(lay, n) == CHOOSE i \in C_Kinds(lay, {"block"}) : lay[i].n = n
C_BlockEnd(lay, n) == MatchEnd(lay, C_BlockAt(lay, n) + 1, 0)
C_DefaultBody(lay, n) == Slice(lay, C_BlockAt(lay, n) + 1, C_BlockEnd(lay, n) - 1)
C_Inside(lay, inner, outer) ==
    /\ C_BlockAt(lay, outer) < C_BlockAt(lay, inner)
    /\ C_BlockAt(lay, inner) < C_BlockEnd(lay, outer)
C_TopLevelBlocks(lay) ==
    {n \in C_BlockNames(lay) : \A m \in C_BlockNames(lay) \ {n} : ~C_Inside(lay, n, m)}
\* a text with every block marker and the {{end}} that closes it taken out
C_StripBlockMarkers(s) ==
    LET drop == C_Kinds(s, {"block"})
                \cup {MatchEnd(s, i + 1, 0) : i \in C_Kinds(s, {"block"})}
        F[i \in 0..Len(s)] ==
            IF i = 0 THEN <<>>
            ELSE IF i \in drop THEN F[i - 1] ELSE Append(F[i - 1], s[i])
    IN F[Len(s)]
\* Compile has returned after compiling the page from its source
C_CompiledFromSource == pc = "idle" /\ result.err # "none" /\ ~result.cached
\* combineWithLayout has substituted the layout's blocks
C_BlocksReplaced == pc = "append"

\* C1: when the page (all sections closed) provides a section for a block of
\* the layout, the composed layout carries the section's body and none of the
\* text of that block's default body, whatever the default body contains.
C1_SectionReplacesBlock ==
    (C_BlocksReplaced /\ C_AllClosed(childSrc)) =>
        \A n \in C_SectionNames(childSrc) \cap C_TopLevelBlocks(layoutSrc) :
            /\ C_TextAtoms(C_SectionBody(childSrc, n)) \subseteq C_TextAtoms(compiledLayout)
            /\ C_TextAtoms(C_DefaultBody(layoutSrc, n)) \cap C_TextAtoms(compiledLayout) = {}

\* C2: when the page (all sections closed) provides no section for any block
\* of the layout, the composed layout is the compiled layout with the
\* placeholders filled and the block markers taken out: the default bodies
\* keep their tokens, order and nesting.
C2_DefaultBodyUnchanged ==
    (C_BlocksReplaced /\ C_AllClosed(childSrc)
        /\ C_SectionNames(childSrc) \cap C_BlockNames(layoutSrc) = {}) =>
        compiledLayout =
            C_StripBlockMarkers(inlineTemplates(CompileString(layoutSrc).content, defines))

\* C3: for a layout with block "b" nested in block "a" and a page (all
\* sections closed, with text between them) that overrides exactly one of the
\* two, Compile succeeds; overriding only "a" still renders the default of
\* "b", and overriding only "b" renders it inside the default of "a".
C3_NestedBlocksCompose ==
    (/\ C_CompiledFromSource
     /\ layout # ""
     /\ C_AllClosed(childSrc)
     /\ contentNoDefines # <<>>
     /\ {"a", "b"} \subseteq C_BlockNames(layoutSrc)
     /\ C_Inside(layoutSrc, "b", "a")
     /\ Cardinality(C_SectionNames(childSrc) \cap {"a", "b"}) = 1) =>
        /\ result.err = "nil"
        /\ "a" \in C_SectionNames(childSrc) =>
              C_TextAtoms(C_DefaultBody(layoutSrc, "b")) \subseteq C_TextAtoms(result.content)
        /\ "b" \in C_SectionNames(childSrc) =>
              /\ C_TextAtoms(C_SectionBody(childSrc, "b")) \subseteq C_TextAtoms(result.content)
              /\ (C_TextAtoms(C_DefaultBody(layoutSrc, "a"))
                     \ C_TextAtoms(C_DefaultBody(layoutSrc, "b")))
                    \subseteq C_TextAtoms(result.content)

\* C4: for a page with a section that has no @endsection, Compile returns,
\* and what it returns is an error, never a compiled text.
C4_UnclosedSectionIsAnError ==
    C_HasUnclosedSection(childSrc) =>
        /\ pc # "spinning"
        /\ C_CompiledFromSource => result.err # "nil"

\* C10: the page's .compiled file, when it exists, holds the text the
\* compilation of the page produced, and a Compile that returns the file's
\* content returns that text.
C10_CacheFileHoldsCompiledText ==
    /\ cacheFile.exists => cacheFile.content = compiled
    /\ (pc = "idle" /\ result.err = "nil" /\ result.cached) => result.content = compiled

\* C14: no template is executed while the cache lock is held.
C14_NoExecutionUnderLock == [][Set_Execute => ~mutexHeld]_vars

(***************************************************************************)
(* BladeEngine and FileWatcher.  The templates directory holds one         *)
(* component, one layout and one page; the page names no layout.  The      *)
(* CacheManager's directory ./cache and the Compiler's directory           *)
(* Dir(templatesDir)/cache are the same directory, and a file named after  *)
(* a template is the same file whoever writes it.  The disk accepts every  *)
(* write.                                                                  *)
(***************************************************************************)
\* the files of templatesDir in the order filepath.Walk visits them
TemplateFiles == <<"components/c", "layouts/l", "pages/a">>
TemplateNames == {TemplateFiles[i] : i \in 1..Len(TemplateFiles)}

\* Compiler.shouldWriteCompiled: false under layouts/ and components/
shouldWriteCompiled(f) == f \notin {"components/c", "layouts/l"}

\* os.ReadFile(templatePath)
source(f) ==
    CASE f = "pages/a" -> childSrc
      [] f = "layouts/l" -> layoutSrc
      [] OTHER -> components[f]

\* Compiler.Compile reads the compiled file instead of the template when it
\* may and the file is newer than the template
readsCompiledFile(f) == shouldWriteCompiled(f) /\ f \in cacheFiles /\ f \notin changed

\* Compiler.ParseTemplate's error: Compile, then the host parse of its text
ParseTemplate(f) ==
    IF readsCompiledFile(f) THEN "nil"
    ELSE LET r == CompileString(source(f))
         IN IF r.err # "nil" THEN r.err
            ELSE IF HostParse(r.content) THEN "nil" ELSE "parse error"

\* Compiler.Compile, having returned err, wrote <f>.compiled and registered
\* it in the manifest
registersCompiled(f, err) ==
    err = "nil" /\ ~readsCompiledFile(f) /\ shouldWriteCompiled(f)

\* the engine's calls that compile a template, and when each may start:
\* ValidateAllTemplates and PreloadTemplates inside the constructor (of the
\* files ValidateAllTemplates compiles only the page leaves a trace),
\* Render and WarmupCache on the constructed engine, the cached ones on a
\* name that Get does not find
EngineOps ==
    {"ValidateAllTemplates", "PreloadTemplates", "renderWithoutCache",
     "renderWithCache", "WarmupCache"}

MayStart(op, f) ==
    CASE op = "ValidateAllTemplates" -> epc = "new" /\ f = PageName
      [] op = "PreloadTemplates" -> epc = "preload" /\ todo # <<>> /\ f = Head(todo)
      [] op = "renderWithoutCache" -> epc = "returned" /\ development
      [] op = "renderWithCache" -> epc = "returned" /\ ~development /\ f \notin DOMAIN items
      [] op = "WarmupCache" -> epc = "returned" /\ f \notin DOMAIN items
      [] OTHER -> FALSE

\* Compiler.ParseTemplate(f) inside the call op: Compile writes the compiled
\* file of a page and registers it in the manifest
BladeEngine_ParseTemplate(op, f) ==
    /\ call.op = "none"
    /\ MayStart(op, f)
    /\ LET err == ParseTemplate(f)
           reg == registersCompiled(f, err)
       IN /\ cacheFiles' = IF reg THEN cacheFiles \cup {f} ELSE cacheFiles
          /\ manifest' = IF reg THEN manifest \cup {f} ELSE manifest
          /\ call' = [op |-> op, f |-> f, err |-> err,
                      rev |-> IF f \in changed THEN 1 ELSE 0]
    /\ UNCHANGED <<items, currentSize, now, rpc, last>>
    /\ UNCHANGED kvars
    /\ UNCHANGED <<development, svars, gvars, invalidated,
                   epc, todo, watcher, pending, changed>>

\* cacheManager.Set(f, tmpl, size) after a compilation without error; the
\* lock waits for no reader here, Get being called by no one meanwhile
setCompiled(f, size) ==
    LET r == SetResult(items, currentSize, f, size, now)
    IN /\ items' = r.items
       /\ currentSize' = r.currentSize
       /\ cacheFiles' = IF r.err = "nil" THEN cacheFiles \cup {f} ELSE cacheFiles
       /\ last' = [op |-> "Set", err |-> r.err]

\* NewBladeEngineWithConfig: ValidateAllTemplates has returned
ValidateAllTemplates ==
    /\ call.op = "ValidateAllTemplates"
    /\ epc' = "validated"
    /\ call' = NoEngineCall
    /\ UNCHANGED mvars
    /\ UNCHANGED kvars
    /\ UNCHANGED <<development, svars, gvars, invalidated,
                   todo, watcher, pending, changed, manifest>>

\* PreloadTemplates: the cache is cleared, then the directory is walked
PreloadTemplates_Clear ==
    /\ epc = "validated"
    /\ items' = NoItems
    /\ currentSize' = 0
    /\ cacheFiles' = {}
    /\ last' = [op |-> "Clear", err |-> "nil"]
    /\ todo' = TemplateFiles
    /\ epc' = "preload"
    /\ UNCHANGED <<now, rpc>>
    /\ UNCHANGED kvars
    /\ UNCHANGED <<development, svars, gvars, invalidated,
                   watcher, pending, changed, manifest, call>>

\* PreloadTemplates, the walk function on one file, after its compilation
PreloadTemplates_Set ==
    /\ call.op = "PreloadTemplates"
    /\ IF call.err = "nil"
       THEN \E size \in 0..MaxItemSize : setCompiled(call.f, size)
       ELSE UNCHANGED <<items, currentSize, cacheFiles, last>>
    /\ todo' = Tail(todo)
    /\ call' = NoEngineCall
    /\ UNCHANGED <<now, rpc>>
    /\ UNCHANGED kvars
    /\ UNCHANGED <<development, svars, gvars, invalidated,
                   epc, watcher, pending, changed, manifest>>

\* in development the watcher is created and started, and its Stop deferred
FileWatcher_Start ==
    /\ epc = "preload"
    /\ todo = <<>>
    /\ call.op = "none"
    /\ watcher' = IF development THEN "running" ELSE "none"
    /\ watchLoop' = IF development THEN "running" ELSE "none"
    /\ epc' = "configure"
    /\ UNCHANGED mvars
    /\ UNCHANGED kvars
    /\ UNCHANGED <<development, svars, sweeper, stopCleanup, invalidated,
                   todo, pending, changed, manifest, call>>

\* the constructor returns: the deferred watcher.Stop() closes the fsnotify
\* watcher, its Events channel is closed and the goroutine of Start returns
NewBladeEngineWithConfig_return ==
    /\ epc = "configure"
    /\ watcher' = IF watcher = "running" THEN "closed" ELSE watcher
    /\ pending' = {}
    /\ epc' = "returned"
    /\ UNCHANGED mvars
    /\ UNCHANGED kvars
    /\ UNCHANGED <<development, svars, gvars, invalidated,
                   todo, changed, manifest, call>>

\* a template file is written: a running watcher receives the event
FileEvent(f) ==
    /\ f \notin changed
    /\ f \notin pending
    /\ watcher = "running" \/ epc = "returned"
    /\ pending' = IF watcher = "running" THEN pending \cup {f} ELSE pending
    /\ changed' = IF epc = "returned" THEN changed \cup {f} ELSE changed
    /\ UNCHANGED mvars
    /\ UNCHANGED kvars
    /\ UNCHANGED <<development, svars, gvars, invalidated,
                   epc, todo, watcher, manifest, call>>

\* FileWatcher.Start's goroutine on one event: ClearCacheFor(relPath), then
\* the compiled file of that name is removed
FileWatcher_Handle(f) ==
    /\ watcher = "running"
    /\ f \in pending
    /\ IF f \in DOMAIN items
       THEN /\ currentSize' = currentSize - items[f].Size
            /\ items' = Restrict(items, DOMAIN items \ {f})
       ELSE UNCHANGED <<items, currentSize>>
    /\ cacheFiles' = cacheFiles \ {f}
    /\ last' = [op |-> "Remove", err |-> "nil"]
    /\ pending' = pending \ {f}
    /\ changed' = changed \ {f}
    /\ UNCHANGED <<now, rpc>>
    /\ UNCHANGED kvars
    /\ UNCHANGED <<development, svars, gvars, invalidated,
                   epc, todo, watcher, manifest, call>>

\* Render in development: the parsed template is executed, nothing is cached
renderWithoutCache ==
    /\ call.op = "renderWithoutCache"
    /\ call' = NoEngineCall
    /\ UNCHANGED mvars
    /\ UNCHANGED kvars
    /\ UNCHANGED <<development, svars, gvars, invalidated,
                   epc, todo, watcher, pending, changed, manifest>>

\* renderWithCache and WarmupCache after the compilation: Set, unless the
\* compilation failed
renderWithCache_Set ==
    /\ call.op \in {"renderWithCache", "WarmupCache"}
    /\ IF call.err = "nil"
       THEN \E size \in 0..MaxItemSize : setCompiled(call.f, size)
       ELSE UNCHANGED <<items, currentSize, cacheFiles, last>>
    /\ call' = NoEngineCall
    /\ UNCHANGED <<now, rpc>>
    /\ UNCHANGED kvars
    /\ UNCHANGED <<development, svars, gvars, invalidated,
                   epc, todo, watcher, pending, changed, manifest>>

\* ClearCacheFor(f) on the constructed engine: cacheManager.Remove(f)
ClearCacheFor(f) ==
    /\ epc = "returned"
    /\ ~ReadersHold
    /\ IF f \in DOMAIN items
       THEN /\ currentSize' = currentSize - items[f].Size
            /\ items' = Restrict(items, DOMAIN items \ {f})
            /\ cacheFiles' = cacheFiles \ {f}
       ELSE UNCHANGED <<items, currentSize, cacheFiles>>
    /\ last' = [op |-> "Remove", err |-> "nil"]
    /\ invalidated' = invalidated \cup ({f} \cap changed)
    /\ UNCHANGED <<now, rpc>>
    /\ UNCHANGED kvars
    /\ UNCHANGED <<development, svars, gvars,
                   epc, todo, watcher, pending, changed, manifest, call>>

\* ClearCache on the constructed engine: cacheManager.Clear()
ClearCache ==
    /\ epc = "returned"
    /\ ~ReadersHold
    /\ items' = NoItems
    /\ currentSize' = 0
    /\ cacheFiles' = {}
    /\ last' = [op |-> "Clear", err |-> "nil"]
    /\ invalidated' = invalidated \cup changed
    /\ UNCHANGED <<now, rpc>>
    /\ UNCHANGED kvars
    /\ UNCHANGED <<development, svars, gvars,
                   epc, todo, watcher, pending, changed, manifest, call>>

\* what a step of the two goroutines' ends leaves alone
StopFrame ==
    /\ UNCHANGED mvars
    /\ UNCHANGED kvars
    /\ UNCHANGED <<development, svars, invalidated,
                   epc, todo, watcher, pending, changed, manifest, call>>

\* CacheManager.Stop: close(cm.stopCleanup); a second close would panic
CacheManager_Stop ==
    /\ stopCleanup = "open"
    /\ stopCleanup' = "closed"
    /\ UNCHANGED <<sweeper, watchLoop>>
    /\ StopFrame

\* a routine that waits for a value on the channel: a close sends none
startCleanupRoutine_return_OnValue ==
    /\ sweeper = "running"
    /\ stopCleanup = "sent"
    /\ sweeper' = "returned"
    /\ UNCHANGED <<stopCleanup, watchLoop>>
    /\ StopFrame

\* startCleanupRoutine's select: case <-cm.stopCleanup: return; the receive
\* from the closed channel is ready at every select
startCleanupRoutine_return ==
    /\ sweeper = "running"
    /\ stopCleanup = "closed"
    /\ sweeper' = "returned"
    /\ UNCHANGED <<stopCleanup, watchLoop>>
    /\ StopFrame

\* the goroutine of FileWatcher.Start: the receive from the closed Events
\* (or Errors) channel gives !ok, and it returns
FileWatcher_Return ==
    /\ watchLoop = "running"
    /\ watcher = "closed"
    /\ watchLoop' = "returned"
    /\ UNCHANGED <<sweeper, stopCleanup>>
    /\ StopFrame

EnginePages ==
    { <<Txt("H"), WS, Action("$x", TRUE)>>,
      <<Txt("H"), WS, RawBlade("$x")>>,
      <<Txt("H"), WS, Comment("note", FALSE)>>,
      <<Txt("H"), WS, Include("components/c")>> }

InitEngine ==
    /\ NewCacheManager
    /\ childSrc \in EnginePages
    /\ layoutSrc = <<Txt("L0"), Yield("content")>>
    /\ components = [n \in {"components/c"} |-> <<Txt("C"), Action("$x", TRUE)>>]
    /\ pc = "idle"
    /\ content = <<>>
    /\ layout = ""
    /\ compiledLayout = <<>>
    /\ defines = NoDefines
    /\ contentNoDefines = <<>>
    /\ result = NoResult
    /\ compiled = <<>>
    /\ cacheFile = NoFile
    /\ buf = <<>>
    /\ development \in BOOLEAN
    /\ epc = "new"
    /\ todo = <<>>
    /\ watcher = "none"
    /\ pending = {}
    /\ changed = {}
    /\ manifest = {}
    /\ call = NoEngineCall
    /\ invalidated = {}
    /\ watchLoop = "none"
    /\ ChooserAtRest

NextEngine ==
    \/ \E op \in EngineOps, f \in TemplateNames : BladeEngine_ParseTemplate(op, f)
    \/ ValidateAllTemplates
    \/ PreloadTemplates_Clear
    \/ PreloadTemplates_Set
    \/ FileWatcher_Start
    \/ NewBladeEngineWithConfig_return
    \/ \E f \in TemplateNames : FileEvent(f)
    \/ \E f \in TemplateNames : FileWatcher_Handle(f)
    \/ renderWithoutCache
    \/ renderWithCache_Set
    \/ \E f \in TemplateNames : ClearCacheFor(f)
    \/ ClearCache
    \/ FileWatcher_Return

\* the watcher's goroutine, while it lives, takes every event of its channel,
\* in the order of their arrival: none waits for ever
SpecEngine ==
    /\ InitEngine
    /\ [][NextEngine]_vars
    /\ \A f \in TemplateNames : WF_vars(FileWatcher_Handle(f))
    /\ WF_vars(FileWatcher_Return)

(***************************************************************************)
(* The constructor together with the cache manager's sweep goroutine and   *)
(* its Stop: NewCacheManager starts startCleanupRoutine, whose select      *)
(* loop sweeps on every tick of its ticker and returns once stopCleanup is *)
(* closed.  The constructor takes no wall time here (now stays 0): a sweep *)
(* finds no entry expired and leaves its trace in `last` only.             *)
(***************************************************************************)
ConstructorOps == {"ValidateAllTemplates", "PreloadTemplates"}

NextStop ==
    \/ \E op \in ConstructorOps, f \in TemplateNames : BladeEngine_ParseTemplate(op, f)
    \/ ValidateAllTemplates
    \/ PreloadTemplates_Clear
    \/ PreloadTemplates_Set
    \/ FileWatcher_Start
    \/ NewBladeEngineWithConfig_return
    \/ \E f \in TemplateNames : FileEvent(f)
    \/ \E f \in TemplateNames : FileWatcher_Handle(f)
    \/ FileWatcher_Return
    \/ cleanupExpiredItems
    \/ CacheManager_Stop
    \/ startCleanupRoutine_return

\* both goroutines are scheduled: a select whose receive from a closed
\* channel stays ready takes it in the end
SpecStop ==
    /\ InitEngine
    /\ [][NextStop]_vars
    /\ WF_vars(startCleanupRoutine_return)
    /\ WF_vars(FileWatcher_Return)

(***************************************************************************)
(* Interpolations, comments, pass order, includes.                         *)
(***************************************************************************)
C_OnlyKinds(src, kinds) == \A i \in 1..Len(src) : src[i].k \in kinds

\* the escaped output call on the dot-path form of a variable
C_Escaped(e) ==
    CASE e = "$x" -> "escape .x"
      [] e = "$user.Name" -> "escape .user.Name"
      [] e = "$m[\"key\"]" -> "escape (index .m \"key\")"
      [] OTHER -> e

\* the raw output call on the dot-path form of a variable
C_Raw(e) ==
    CASE e = "$x" -> "raw .x"
      [] e = "$user.Name" -> "raw .user.Name"
      [] e = "$m[\"key\"]" -> "raw (index .m \"key\")"
      [] OTHER -> e

\* C17: a page of texts and interpolations compiles, every {{ $v }} to the
\* output action {{escape <dot path of v>}} and every {!! $v !!} to the output
\* action {{raw <dot path of v>}}.
C17_InterpolationCompilesToEscape ==
    (C_CompiledFromSource /\ C_OnlyKinds(childSrc, {"text", "space", "action", "{!!"}))
    => /\ result.err = "nil"
       /\ Len(result.content) = Len(childSrc)
       /\ \A i \in 1..Len(childSrc) :
             /\ childSrc[i].k = "action"
                => /\ result.content[i].k = "action"
                   /\ result.content[i].n = C_Escaped(childSrc[i].n)
             /\ childSrc[i].k = "{!!"
                => /\ result.content[i].k = "action"
                   /\ result.content[i].n = C_Raw(childSrc[i].n)

\* C18: a page of texts and {{-- ... --}} comments compiles, and the compiled
\* text is the page without its comments.
C18_CommentsAreDeleted ==
    (C_CompiledFromSource /\ C_OnlyKinds(childSrc, {"text", "space", "comment"}))
    => /\ result.err = "nil"
       /\ result.content = SelectSeq(childSrc, LAMBDA t : t.k # "comment")

\* the order of the passes as stated: unless after the conditionals and before
\* foreach, interpolation after foreach, comments after interpolation
C_StatedOrder ==
    << "processSections", "processYield", "processInclude", "processIfStatements",
       "processElse", "processEndif", "processUnless", "processForeach",
       "processEndForeach", "processVariables", "processRawVariables",
       "processComments", "processPhp" >>

\* C19: the text the directive passes leave is the text the passes give when
\* applied in the stated order, in which @unless is converted before the
\* interpolations are.
C19_PassesInStatedOrder ==
    (pc = "validate" /\ layout = "")
    => content = applyDirectives(C_StatedOrder, 1, processExtends(childSrc).content, 0).content

\* C20: the interpolation pass applied to its own output changes nothing, be
\* the text a page before the pass or the text the passes produced.
C20_InterpolationPassIsIdempotent ==
    LET once == processVariables(content)
    IN processVariables(once) = once

\* the pass has converted {{ $x }} and has rewritten a host conditional, and
\* its output is the text at hand
C20_Witness ==
    /\ pc = "validate"
    /\ \E i \in 1..Len(childSrc) : childSrc[i].k = "action" /\ childSrc[i].n = "$x"
    /\ \E i \in 1..Len(childSrc) : childSrc[i] = If(".x", FALSE)
    /\ \E i \in 1..Len(content) : content[i] = Action(".x", TRUE)
    /\ \E i \in 1..Len(content) : content[i] = If(".x", TRUE)

\* the files a page's includes reach, and whether one of them reaches itself
C_Includes(src) == {src[i].n : i \in C_Kinds(src, {"@include"})} \cap DOMAIN components
RECURSIVE C_Reach(_, _)
C_Reach(S, n) ==
    IF n = 0 THEN S
    ELSE C_Reach(S \cup UNION {C_Includes(components[f]) : f \in S}, n - 1)
C_IncludeCycle ==
    \E f \in C_Reach(C_Includes(childSrc), Cardinality(DOMAIN components)) :
        f \in C_Reach(C_Includes(components[f]), Cardinality(DOMAIN components))

\* C16: the compilation of a page never ends in a crash, and when its includes
\* form a cycle it returns an error.
C16_IncludeCycleIsAnError ==
    /\ pc # "crashed"
    /\ (C_CompiledFromSource /\ C_IncludeCycle) => result.err # "nil"

(***************************************************************************)
(* Disk artifacts, the manifest, invalidation.                             *)
(***************************************************************************)
C_Fragments == {f \in TemplateNames : f \in {"components/c", "layouts/l"}}

\* C11: no file of the cache directory is named after a template under
\* layouts/ or components/.
C11_NoArtifactForFragments == cacheFiles \cap C_Fragments = {}

\* C12: the manifest records exactly the names whose compiled file is on disk.
C12_ManifestMatchesDisk == manifest = cacheFiles

MaxCalls == 3

AboutBlade == <<"pages/about", ".blade", ".tpl">>
HomeGohtml == <<"pages/home", ".gohtml">>
NoteTmpl == <<"pages/note", ".tmpl">>
ChooserNames == {AboutBlade, HomeGohtml, NoteTmpl}

\* os.ReadFile(templatePath): a page in blade syntax, two in the host syntax
templateSource(name) ==
    IF name = AboutBlade THEN <<Txt("H"), WS, Action("$x", TRUE)>>
    ELSE <<Txt("H"), WS, Action(".x", FALSE)>>

\* config.AutoModeExtensions: empty (the constructor's default list) or the
\* list of the README's example
AutoModeExtensionLists ==
    { << <<".gohtml">>, <<".html">> >>, << <<".blade", ".tpl">> >> }

\* strings.HasSuffix
HasSuffix(name, ext) ==
    /\ Len(ext) <= Len(name)
    /\ SubSeq(name, Len(name) - Len(ext) + 1, Len(name)) = ext

\* chooseCompilerFor's loop over b.autoModeExtensions; b.goCompiler is never nil
chosenFor(name, exts) ==
    IF \E i \in DOMAIN exts : HasSuffix(name, exts[i]) THEN "go" ELSE "blade"

\* the mode of the Compiler chosen: the constructor builds b.compiler with
\* mode "blade" and b.goCompiler with mode "go", whatever config.Mode is
compilerMode(chosen) == IF chosen = "go" THEN "go" ELSE "blade"

\* comp.ParseTemplate(templatePath): Compile, which in go mode validates the
\* text and returns it as it is, then the host parse
comp_ParseTemplate(chosen, src) ==
    LET r == IF compilerMode(chosen) = "go"
             THEN IF validateTemplateSyntax(src) # "nil"
                  THEN Err("invalid template syntax") ELSE Ok(src)
             ELSE CompileString(src)
    IN IF r.err = "nil" /\ ~HostParse(r.content) THEN Err("parse error") ELSE r

\* a request calls chooseCompilerFor(templateName): the loop has run
chooseCompilerFor_Call(c, name) ==
    /\ ccall[c].pc = "idle"
    /\ calls + Cardinality({d \in Procs : ccall[d].pc # "idle"}) < MaxCalls
    /\ ccall' = [ccall EXCEPT ![c] =
                    [NoChoice EXCEPT !.pc = "Lock", !.templateName = name,
                                     !.chosen = chosenFor(name, autoModeExtensions)]]
    /\ UNCHANGED <<mode, autoModeExtensions, mu, lastUsedCompiler, usageCounts, calls>>

\* b.mu.Lock() taken without waiting for the holder
chooseCompilerFor_Lock_NoWait(c) ==
    /\ ccall[c].pc = "Lock"
    /\ mu' = c
    /\ ccall' = [ccall EXCEPT ![c].pc = "lastUsedCompiler"]
    /\ UNCHANGED <<mode, autoModeExtensions, lastUsedCompiler, usageCounts, calls>>

\* b.mu.Lock()
chooseCompilerFor_Lock(c) ==
    /\ ccall[c].pc = "Lock"
    /\ mu = NoOne
    /\ mu' = c
    /\ ccall' = [ccall EXCEPT ![c].pc = "lastUsedCompiler"]
    /\ UNCHANGED <<mode, autoModeExtensions, lastUsedCompiler, usageCounts, calls>>

\* b.lastUsedCompiler = chosen; b.usageCounts[chosen] is read
chooseCompilerFor_lastUsedCompiler(c) ==
    /\ ccall[c].pc = "lastUsedCompiler"
    /\ lastUsedCompiler' = ccall[c].chosen
    /\ ccall' = [ccall EXCEPT ![c].pc = "usageCounts",
                              ![c].n = usageCounts[ccall[c].chosen]]
    /\ UNCHANGED <<mode, autoModeExtensions, mu, usageCounts, calls>>

\* b.usageCounts[chosen] = (the value read) + 1
chooseCompilerFor_usageCounts(c) ==
    /\ ccall[c].pc = "usageCounts"
    /\ usageCounts' = [usageCounts EXCEPT ![ccall[c].chosen] = ccall[c].n + 1]
    /\ ccall' = [ccall EXCEPT ![c].pc = "return"]
    /\ UNCHANGED <<mode, autoModeExtensions, mu, lastUsedCompiler, calls>>

\* return comp; the deferred b.mu.Unlock() runs
chooseCompilerFor_return(c) ==
    /\ ccall[c].pc = "return"
    /\ mu' = NoOne
    /\ calls' = calls + 1
    /\ ccall' = [ccall EXCEPT ![c].pc = "ParseTemplate"]
    /\ UNCHANGED <<mode, autoModeExtensions, lastUsedCompiler, usageCounts>>

\* tmpl, err := comp.ParseTemplate(templatePath), and the request ends
renderWithoutCache_ParseTemplate(c) ==
    /\ ccall[c].pc = "ParseTemplate"
    /\ LET r == comp_ParseTemplate(ccall[c].chosen, templateSource(ccall[c].templateName))
       IN ccall' = [ccall EXCEPT ![c].pc = "idle", ![c].err = r.err,
                                 ![c].text = r.content]
    /\ UNCHANGED <<mode, autoModeExtensions, mu, lastUsedCompiler, usageCounts, calls>>

\* what a step of the compiler choice leaves alone
ChooserFrame ==
    /\ UNCHANGED mvars
    /\ UNCHANGED kvars
    /\ UNCHANGED <<development, gvars, invalidated,
                   epc, todo, watcher, pending, changed, manifest, call>>

InitChooser ==
    /\ NewCacheManager
    /\ CompilerAtRest
    /\ EngineAtRest
    /\ mode \in {"blade", "go"}
    /\ autoModeExtensions \in AutoModeExtensionLists
    /\ mu = NoOne
    /\ lastUsedCompiler = ""
    /\ usageCounts = [blade |-> 0, go |-> 0]
    /\ ccall = [c \in Procs |-> NoChoice]
    /\ calls = 0

NextChooser ==
    \/ \E c \in Procs, name \in ChooserNames : chooseCompilerFor_Call(c, name) /\ ChooserFrame
    \/ \E c \in Procs : chooseCompilerFor_Lock(c) /\ ChooserFrame
    \/ \E c \in Procs : chooseCompilerFor_lastUsedCompiler(c) /\ ChooserFrame
    \/ \E c \in Procs : chooseCompilerFor_usageCounts(c) /\ ChooserFrame
    \/ \E c \in Procs : chooseCompilerFor_return(c) /\ ChooserFrame
    \/ \E c \in Procs : renderWithoutCache_ParseTemplate(c) /\ ChooserFrame

SpecChooser == InitChooser /\ [][NextChooser]_vars

(***************************************************************************)
(* Claims about combineWithLayout's handling of the page's definitions     *)
(* (checked under SpecCompiler).                                           *)
(***************************************************************************)
C_Count(s, i, j, kinds) == Cardinality({m \in i..j : s[m].k \in kinds})

\* the first {{end}} after the opener at i with as many openers as {{end}}s
\* in between; 0 when there is none
C_ClosingEnd(s, i) ==
    LET c == {j \in (i + 1)..Len(s) :
                 /\ s[j].k = "end"
                 /\ C_Count(s, i + 1, j - 1, {"if", "block", "define"})
                        = C_Count(s, i + 1, j - 1, {"end"})}
    IN IF c = {} THEN 0 ELSE CHOOSE j \in c : \A m \in c : j <= m

C_DefineStarts(s) == {i \in 1..Len(s) : s[i].k = "define"}

C_EveryDefinitionClosed(s) == \A i \in C_DefineStarts(s) : C_ClosingEnd(s, i) # 0

\* the definitions that lie in no other definition
C_TopDefines(s) ==
    {i \in C_DefineStarts(s) :
        ~\E h \in C_DefineStarts(s) : h < i /\ i <= C_ClosingEnd(s, h)}

\* the text with every top-level definition, marker to closing end, cut out
C_OutsideDefinitions(s) ==
    LET keep == {m \in 1..Len(s) :
                    ~\E i \in C_TopDefines(s) : i <= m /\ m <= C_ClosingEnd(s, i)}
    IN [m \in 1..Cardinality(keep) |->
           s[CHOOSE x \in keep : Cardinality({y \in keep : y <= x}) = m]]

\* C25: when every definition of the page body is closed, each captured
\* section body is the text between its define marker and the end that
\* matches it under depth counting of nested openers, and what is left of
\* the body is the body without those definitions.
C25_CapturedBodiesAreBalanced ==
    (pc = "inline" /\ C_EveryDefinitionClosed(content)) =>
        /\ DOMAIN defines = {content[i].n : i \in C_TopDefines(content)}
        /\ \A i \in C_TopDefines(content) :
              defines[content[i].n]
                  = SubSeq(content, i + 1, C_ClosingEnd(content, i) - 1)
        /\ contentNoDefines = C_OutsideDefinitions(content)

C25_Witness ==
    /\ pc = "inline"
    /\ C_EveryDefinitionClosed(content)
    /\ Cardinality(DOMAIN defines) = 2
    /\ contentNoDefines # <<>>
    /\ \E n \in DOMAIN defines :
          \E m \in 1..Len(defines[n]) : defines[n][m].k = "end"


\* combineWithLayout returns: the step from the block loop's layout to the
\* composed text
C_Composes == pc = "append" /\ pc' = "validate"

C_OccursAt(part, txt, p) ==
    p + Len(part) <= Len(txt) /\ SubSeq(txt, p + 1, p + Len(part)) = part

C_OccursIn(part, txt) == \E p \in 0..Len(txt) : C_OccursAt(part, txt, p)

\* the number of tokens of the composed text before the layout part
C_LayoutStart(txt, lay) ==
    CHOOSE p \in 0..Len(txt) :
        /\ C_OccursAt(lay, txt, p)
        /\ \A q \in 0..(p - 1) : ~C_OccursAt(lay, txt, q)

C_NamedDefinitions(txt, n) ==
    {i \in 1..Len(txt) : txt[i].k \in {"define", "block"} /\ txt[i].n = n}

\* C26: the composed text never holds two named definitions (define or
\* block) of one name.
C26_NoNameDefinedTwice ==
    (pc = "validate" /\ layout # "") =>
        \A i \in 1..Len(content) :
            content[i].k \in {"define", "block"} =>
                Cardinality(C_NamedDefinitions(content, content[i].n)) = 1

\* C27: the text that follows the composed layout is the page body with
\* every captured definition cut out, and is empty for a body of sections
\* only.
C27_AppendsBodyWithoutDefinitions ==
    [][C_Composes =>
          LET p == C_LayoutStart(content', compiledLayout)
          IN SubSeq(content', p + Len(compiledLayout) + 1, Len(content'))
                = C_OutsideDefinitions(content)]_vars

\* C28: a captured section stands as a definition before the layout part of
\* the composed text exactly when its body was inlined nowhere in the layout
\* and the rest of the composed text holds no define or block of its name.
C28_StandaloneOnlyWhenNeeded ==
    [][C_Composes =>
          LET p == C_LayoutStart(content', compiledLayout)
              rest == SubSeq(content', p + 1, Len(content'))
          IN \A n \in DOMAIN defines :
                (C_NamedDefinitions(SubSeq(content', 1, p), n) # {})
                    <=> /\ ~C_OccursIn(defines[n], compiledLayout)
                        /\ C_NamedDefinitions(rest, n) = {}]_vars

\* C29: the composed text is a function of the page and the layout: whatever
\* order the captured sections are visited in, the same text comes out.
C29_ComposedTextIsDetermined ==
    [][C_Composes =>
          \A order \in Orders(DOMAIN defines) :
              content' = prependDefines(
                            appendContent(compiledLayout, contentNoDefines, content),
                            defines, order)]_vars


\* Compile returns a text for a page that names a layout
C_CompilesLayoutPage ==
    /\ pc' = "idle"
    /\ result' # result
    /\ result'.err = "nil"
    /\ C_Kinds(childSrc, {"@extends"}) # {}

\* C24: the text a compilation of a page yields is composed from the layout
\* as it is on disk at that time: the layout's leading text is in it, also
\* after the layout file has changed.
C24_CompiledFromCurrentLayout ==
    [][(C_CompilesLayoutPage /\ layoutSrc[1].k = "text") =>
          layoutSrc[1].n \in C_TextAtoms(result'.content)]_vars


(***************************************************************************)
(* Claims about the compiler choice (checked under SpecChooser).           *)
(***************************************************************************)
\* the name ends with one of the configured extensions
C_HasAutoModeExtension(name) ==
    \E i \in DOMAIN autoModeExtensions :
        \E k \in 1..Len(name) :
            SubSeq(name, k, Len(name)) = autoModeExtensions[i]

C_Returned(c) == ccall[c].pc = "idle" /\ ccall[c].err # "none"

\* C22: in mode "go" a template that compiles, whatever its extension, has
\* its source text as its compiled text.
C22_GoModePassesTextThrough ==
    \A c \in Procs :
        (mode = "go" /\ C_Returned(c) /\ ccall[c].err = "nil") =>
            ccall[c].text = templateSource(ccall[c].templateName)

C_StaleRenderEnds ==
    /\ call.op = "renderWithCache"
    /\ call.err = "nil"
    /\ call.rev = 0
    /\ call.f \in invalidated
    /\ call' = NoEngineCall

\* C23: a render that compiled a template before its source changed, and
\* whose Set comes after the invalidation that followed the change, leaves
\* no cache entry for the template.
C23_NoStaleEntryAfterInvalidation ==
    [][C_StaleRenderEnds => call.f \notin DOMAIN items']_vars

\* C21: once stopCleanup is closed the sweep goroutine returns, and once it
\* has returned it stays so and no sweep touches the cache; once the watcher
\* is closed the goroutine of Start returns and stays so.
C21_StopEndsBothGoroutines ==
    /\ (stopCleanup = "closed") ~> (sweeper = "returned")
    /\ (watcher = "closed") ~> (watchLoop = "returned")
    /\ [][sweeper = "returned" =>
            /\ sweeper' = "returned"
            /\ last'.op = "cleanupExpiredItems" =>
                  UNCHANGED <<items, currentSize, last>>]_vars
    /\ [][watchLoop = "returned" => watchLoop' = "returned"]_vars

C21_Witness ==
    /\ sweeper = "returned"
    /\ watchLoop = "returned"
    /\ last.op = "cleanupExpiredItems"

==============================================================================
